---- MODULE Spec2Model ----
(***************************************************************************)
(* Model of electron-win-state (src/src/index.ts): one WinState instance,  *)
(* its persistent store, and the BrowserWindows whose events it listens    *)
(* to.  Time is counted in milliseconds and kept as the time left on each  *)
(* pending debounce timer.                                                 *)
(***************************************************************************)
EXTENDS Integers, Sequences, FiniteSets, TLC

VARIABLES opts, store, state, win, wins, listeners, nManage, ops, last,
          closeSaves, burst

vars == <<opts, store, state, win, wins, listeners, nManage, ops, last,
          closeSaves, burst>>

(* ---------------------------- bounds ----------------------------------- *)

\* number of manage() calls explored
MaxManage == 2

\* number of API calls and window events explored (timers are not counted)
MaxOps == 4

Windows == {"w1", "w2"}

NoWin == "undefined"

NoTimer == -1

(* ------------------------- program constants --------------------------- *)

DefaultWidth == 600

DefaultHeight == 800

\* milliseconds
DefaultDebounce == 500

(* --------------------------- pure helpers ------------------------------ *)

\* Object.assign({}, a, b): the keys of b win
ObjectAssign(a, b) ==
    [k \in (DOMAIN a) \cup (DOMAIN b) |-> IF k \in DOMAIN b THEN b[k] ELSE a[k]]

EmptyObj == [k \in {} |-> 0]

\* the value undefined: what reading a missing property gives
Undefined == "undefined"

\* v === undefined
IsUndefined(v) == ToString(v) = ToString(Undefined)

\* o.k
Get(o, k) == IF k \in DOMAIN o THEN o[k] ELSE Undefined

\* delete o.k
Without(o, k) == [j \in (DOMAIN o) \ {k} |-> o[j]]

\* faulty variant of DefaultOptions: storeFrameOption just defaults to false
DefaultOptions_FrameOff(options) ==
    [defaultWidth     |-> DefaultWidth,
     defaultHeight    |-> DefaultHeight,
     defaultFrame     |-> TRUE,
     storeFrameOption |-> FALSE,
     dev              |-> FALSE,
     debounce         |-> DefaultDebounce,
     addMethods       |-> TRUE]

\* the defaultOptions table of the constructor
DefaultOptions(options) ==
    [defaultWidth     |-> DefaultWidth,
     defaultHeight    |-> DefaultHeight,
     defaultFrame     |-> TRUE,
     storeFrameOption |-> ~IsUndefined(Get(options, "defaultFrame")),
     dev              |-> FALSE,
     debounce         |-> DefaultDebounce,
     addMethods       |-> TRUE]

\* this.opts = Object.assign({}, defaultOptions, options)
ResolveOptions(options) == ObjectAssign(DefaultOptions(options), options)

\* the defaults record computed by getState
Defaults(o) ==
    IF o.storeFrameOption
    THEN [width |-> o.defaultWidth, height |-> o.defaultHeight, frame |-> o.defaultFrame]
    ELSE [width |-> o.defaultWidth, height |-> o.defaultHeight]

\* faulty variant of GetState: the defaults are laid over the stored record
GetState_DefaultsWin(o, stored) == ObjectAssign(stored, Defaults(o))

\* getState(): Object.assign({}, defaults, stored)
GetState(o, stored) == ObjectAssign(Defaults(o), stored)

\* store.set(object): every key of the object is written, the others stay
StoreSet(st, obj) == ObjectAssign(st, obj)

\* faulty variant of SaveState: only the keys the store already holds are
\* written
SaveState_KnownKeys(st, s) ==
    [k \in DOMAIN st |-> IF k \in DOMAIN s THEN s[k] ELSE st[k]]

\* saveState(): this.store.set(this.state)
SaveState(st, s) == StoreSet(st, s)

\* faulty variant of StoreClear: only the position is dropped
StoreClear_KeepSize(st) == [k \in (DOMAIN st) \ {"x", "y"} |-> st[k]]

\* store.clear()
StoreClear(st) == EmptyObj

\* faulty variant of Reset: the in-memory state is reset to the defaults too
Reset_Reload(c) == [c EXCEPT !.store = StoreClear(c.store), !.state = Defaults(c.opts)]

\* reset(), on the instance c
Reset(c) == [c EXCEPT !.store = StoreClear(c.store)]

\* faulty variant of Clamp: the coordinate is taken as it is
Clamp_None(v) == v

\* winBounds.x >= 0 ? winBounds.x : 0
Clamp(v) == IF v >= 0 THEN v ELSE 0

\* faulty variant of IsNormal: full-screen is not looked at
IsNormal_MinimizedOnly(wn) == wn.mode # "minimized"

\* isNormal(): !win.isMinimized() && !win.isFullScreen()
IsNormal(wn) == wn.mode # "minimized" /\ wn.mode # "fullscreen"

(* ------------------------------ inputs --------------------------------- *)

\* the option objects handed to the constructor
OptionInputs ==
    { EmptyObj,
      [defaultWidth |-> 800, defaultHeight |-> 600, defaultFrame |-> FALSE, dev |-> TRUE],
      [storeFrameOption |-> TRUE, addMethods |-> FALSE] }

\* the records a previous run may have left in the store
StoredInputs ==
    { EmptyObj,
      [width |-> 1024, height |-> 768, x |-> 0, y |-> 30] }

\* the option objects handed to the constructor, for the option rules
ConstructorInputs ==
    { ObjectAssign(ObjectAssign(a, b), c) :
        a \in { EmptyObj, [defaultWidth |-> 800, defaultHeight |-> 600] },
        b \in { EmptyObj, [defaultFrame |-> TRUE], [defaultFrame |-> FALSE] },
        c \in { EmptyObj, [storeFrameOption |-> TRUE], [storeFrameOption |-> FALSE] } }

\* the winState sub-configurations handed to createBrowserWindow
SubConfigs ==
    { ObjectAssign(b, c) :
        b \in { EmptyObj, [defaultFrame |-> TRUE], [defaultFrame |-> FALSE],
                [defaultWidth |-> 1000, defaultHeight |-> 700] },
        c \in { EmptyObj, [storeFrameOption |-> TRUE], [storeFrameOption |-> FALSE] } }

\* the option objects handed to createBrowserWindow
FactoryInputs ==
    { ObjectAssign(ObjectAssign(ObjectAssign(a, b), c), d) :
        a \in { EmptyObj, [width |-> 800, height |-> 600], [width |-> 800] },
        b \in { EmptyObj, [frame |-> FALSE] },
        c \in { EmptyObj, [x |-> 5, y |-> 7] },
        d \in { EmptyObj } \cup { [winState |-> sub] : sub \in SubConfigs } }

\* positions and sizes a window can be moved or resized to
Positions == { [x |-> -50, y |-> 30] }

Sizes == { [width |-> 640, height |-> 480] }

Modes == {"normal", "minimized", "fullscreen"}

\* the amounts of time, in milliseconds, the clock advances by
TimeSteps == {500}

(* --------------------------- event emitter ----------------------------- *)

\* the identity of the k-th function created by the g-th manage() call;
\* the functions created inside unmanage() are fresh and have identity 0
FnOf(g, k) == 5 * (g - 1) + k

FreshFn == 0

NewListener(e, f) ==
    [event |-> e, fn |-> f, timer |-> NoTimer, released |-> FALSE, stale |-> FALSE]

\* win.on(event, fn) for the five listeners of manage()
Subscribe(ls, g) ==
    ls \o << NewListener("maximize", FnOf(g, 1)),
             NewListener("resize",   FnOf(g, 2)),
             NewListener("move",     FnOf(g, 3)),
             NewListener("close",    FnOf(g, 4)),
             NewListener("closed",   FnOf(g, 5)) >>

\* win.removeListener(event, fn): removes the most recently added listener
\* of that event whose function is fn, if there is one
RemoveListener(ls, e, f) ==
    LET hits == { i \in 1..Len(ls) : ls[i].event = e /\ ls[i].fn = f } IN
    IF hits = {} THEN ls
    ELSE LET m == CHOOSE i \in hits : \A j \in hits : j <= i IN
         [i \in 1..(Len(ls) - 1) |-> IF i < m THEN ls[i] ELSE ls[i + 1]]

\* the four removeListener calls of unmanage(), each with a new function
RemoveAll(ls) ==
    RemoveListener(
      RemoveListener(
        RemoveListener(
          RemoveListener(ls, "resize", FreshFn),
          "move", FreshFn),
        "close", FreshFn),
      "closed", FreshFn)

\* bookkeeping: the listeners still subscribed after unmanage() has returned
MarkReleased(ls) == [i \in 1..Len(ls) |-> [ls[i] EXCEPT !.released = TRUE]]

\* unmanage() on the context c = [win, store, listeners, saves]
Unmanage(c) ==
    IF c.win = NoWin THEN c
    ELSE [c EXCEPT !.listeners[c.win] = MarkReleased(RemoveAll(c.listeners[c.win])),
                   !.win = NoWin]

\* closeHandler(): unmanage(), then saveState()
CloseHandler(c, s) ==
    LET u == Unmanage(c) IN
    [u EXCEPT !.store = SaveState(u.store, s), !.saves = u.saves + 1]

\* the emitter calls the k close listeners it holds one after the other
RECURSIVE RunClose(_, _, _)
RunClose(c, s, k) == IF k = 0 THEN c ELSE RunClose(CloseHandler(c, s), s, k - 1)

\* the debounced wrapper: every call restarts the timer
Arm(ls, e, d) ==
    [i \in 1..Len(ls) |->
        IF ls[i].event = e
        THEN [ls[i] EXCEPT !.timer = d, !.stale = ls[i].released]
        ELSE ls[i]]

\* faulty variant of ChangeState: without a bound window the handler reads
\* the window it was subscribed on
ChangeState_KeptWindow(s, wn, ws) ==
    LET t == IF wn = NoWin THEN "w1" ELSE wn IN
    IF ws[t].phase = "closed" THEN s
    ELSE IF IsNormal(ws[t])
         THEN ObjectAssign(s, [x      |-> Clamp(ws[t].bounds.x),
                               y      |-> Clamp(ws[t].bounds.y),
                               width  |-> ws[t].bounds.width,
                               height |-> ws[t].bounds.height])
         ELSE s

\* changeHandler() on the in-memory state: the new state; getBounds() of a
\* destroyed window throws and the handler catches it
ChangeState(s, wn, ws) ==
    IF wn = NoWin THEN s
    ELSE IF ws[wn].phase = "closed" THEN s
    ELSE IF IsNormal(ws[wn])
         THEN ObjectAssign(s, [x      |-> Clamp(ws[wn].bounds.x),
                               y      |-> Clamp(ws[wn].bounds.y),
                               width  |-> ws[wn].bounds.width,
                               height |-> ws[wn].bounds.height])
         ELSE s

\* faulty variant of ChangeStore: the dev option is not looked at
ChangeStore_Always(st, s, wn, ws, o) ==
    IF wn = NoWin THEN st ELSE SaveState(st, ChangeState(s, wn, ws))

\* changeHandler() on the store: written only with the dev option
ChangeStore(st, s, wn, ws, o) ==
    IF wn = NoWin THEN st
    ELSE IF ws[wn].phase = "closed" THEN st
    ELSE IF o.dev THEN SaveState(st, ChangeState(s, wn, ws))
    ELSE st

\* the window queries changeHandler makes, and no query failing
Queries == {"getBounds", "isMinimized", "isFullScreen"}

NoFailure == "none"

\* changeHandler reaches the query f of the bound window wn and it throws:
\* isFullScreen is not asked of a minimized window
Throws(f, wn, ws) ==
    /\ wn # NoWin
    /\ \/ f \in {"getBounds", "isMinimized"}
       \/ f = "isFullScreen" /\ ws[wn].mode # "minimized"

\* faulty variant of ChangeHandler: no try/catch around the body
ChangeHandler_NoCatch(s, st, wn, ws, o, f) ==
    IF Throws(f, wn, ws)
    THEN [state |-> s, store |-> st, failed |-> TRUE, thrown |-> TRUE]
    ELSE [state |-> ChangeState(s, wn, ws), store |-> ChangeStore(st, s, wn, ws, o),
          failed |-> FALSE, thrown |-> FALSE]

\* changeHandler(), the query f of the window throwing (or none)
ChangeHandler(s, st, wn, ws, o, f) ==
    IF Throws(f, wn, ws)
    THEN [state |-> s, store |-> st, failed |-> TRUE, thrown |-> FALSE]
    ELSE [state |-> ChangeState(s, wn, ws), store |-> ChangeStore(st, s, wn, ws, o),
          failed |-> FALSE, thrown |-> FALSE]

\* get winOptions()
WinOptions(o, s) ==
    LET at(k) == IF k \in DOMAIN s THEN s[k] ELSE "undefined" IN
    IF o.storeFrameOption
    THEN [width |-> at("width"), height |-> at("height"), frame |-> at("frame"),
          x |-> at("x"), y |-> at("y")]
    ELSE [width |-> at("width"), height |-> at("height"),
          x |-> at("x"), y |-> at("y")]

(* ------------------------------ factory -------------------------------- *)

\* createBrowserWindow: options.winState with storeFrameOption filled in
\* when it is missing
FactoryWinState(options) ==
    LET sub == IF "winState" \in DOMAIN options THEN options.winState ELSE EmptyObj IN
    IF IsUndefined(Get(sub, "storeFrameOption"))
    THEN ObjectAssign(sub, [storeFrameOption |-> ~IsUndefined(Get(sub, "defaultFrame"))])
    ELSE sub

\* createBrowserWindow: winStateOpts
FactoryOptions(options) ==
    LET sub  == FactoryWinState(options)
        base == [defaultWidth |-> Get(options, "width"),
                 defaultHeight |-> Get(options, "height")]
        own  == IF sub.storeFrameOption
                THEN ObjectAssign(base, [defaultFrame |-> Get(options, "frame")])
                ELSE base
    IN ObjectAssign(own, sub)

\* faulty variant of WindowOptions: the caller's options are laid on top
WindowOptions_CallerWins(options, wo) == ObjectAssign(wo, Without(options, "winState"))

\* createBrowserWindow: { ...options, ...winState.winOptions } once
\* options.winState is deleted
WindowOptions(options, wo) == ObjectAssign(Without(options, "winState"), wo)

\* createBrowserWindow: the instance and the options the window is built with
FactoryBuilt(options, stored) ==
    LET o == ResolveOptions(FactoryOptions(options))
        s == GetState(o, stored)
    IN [opts |-> o, state |-> s, ctor |-> WindowOptions(options, WinOptions(o, s))]

(* ------------------------------- state --------------------------------- *)

NewWindow ==
    [bounds |-> [x |-> 10, y |-> 20, width |-> 800, height |-> 600],
     mode |-> "normal", phase |-> "open", methods |-> FALSE, boundAtClose |-> FALSE]

\* bookkeeping of the notifications of one window: no burst under way
NoBurst == [active |-> FALSE, runs |-> 0, mixActive |-> FALSE, mixRuns |-> 0]

\* bookkeeping: the operation that ran last, and whether reset() has run on
\* this instance
Op(name, w, rel) == [op |-> name, w |-> w, released |-> rel, wiped |-> last.wiped]

\* bookkeeping: the instance has just been built by `name`
Built(name) == [op |-> name, w |-> NoWin, released |-> FALSE, wiped |-> FALSE]

\* the starts of the application: the options it constructs with and the
\* store the previous run left. A first run with the defaults and with the
\* dev option, a later run with the defaults, and a run that turns frame
\* tracking on over a record written without it
StartInputs ==
    { st \in OptionInputs \X StoredInputs :
        \/ st[1] = EmptyObj
        \/ "dev" \in DOMAIN st[1] /\ st[2] = EmptyObj
        \/ "storeFrameOption" \in DOMAIN st[1] /\ st[2] # EmptyObj }

\* new WinState(options) over a store left by a previous run
Init ==
    \E st \in StartInputs : \E options \in {st[1]}, stored \in {st[2]} :
        /\ opts = ResolveOptions(options)
        /\ store = stored
        /\ state = GetState(ResolveOptions(options), stored)
        /\ win = NoWin
        /\ wins = [w \in Windows |-> NewWindow]
        /\ listeners = [w \in Windows |-> << >>]
        /\ nManage = 0
        /\ ops = 0
        /\ last = Built("constructor")
        /\ closeSaves = [w \in Windows |-> 0]
        /\ burst = [w \in Windows |-> NoBurst]

\* one more API call or window event
Step == ops < MaxOps /\ ops' = ops + 1

\* the fields of the instance that reset() can reach
Instance == [opts |-> opts, store |-> store, state |-> state]

Ctx == [win |-> win, store |-> store, listeners |-> listeners, saves |-> 0]

\* bookkeeping: w is the bound window and holds exactly one resize
\* subscription that no unmanage() has released
ManagedOnce(w) ==
    /\ win = w
    /\ Cardinality({ i \in 1..Len(listeners[w]) :
                       listeners[w][i].event = "resize" /\ ~listeners[w][i].released }) = 1

\* bookkeeping: w is bound through one manage() call, the only one it ever
\* had, and no unmanage() has touched its subscriptions
CleanBinding(w) ==
    /\ win = w
    /\ Len(listeners[w]) = 5
    /\ \A i \in 1..Len(listeners[w]) : ~listeners[w][i].released

\* bookkeeping: a notification of w arrives. It opens a burst when no
\* debounce timer of w is pending, and joins the open burst when no time has
\* passed since the burst began
Arrive(b, w) ==
    IF ~CleanBinding(w) THEN [b EXCEPT !.mixActive = FALSE, !.mixRuns = 0]
    ELSE IF \A i \in 1..Len(listeners[w]) : listeners[w][i].timer = NoTimer
    THEN [b EXCEPT !.mixActive = TRUE, !.mixRuns = 0]
    ELSE IF b.mixActive /\ \A i \in 1..Len(listeners[w]) :
                              listeners[w][i].timer \in {NoTimer, opts.debounce}
    THEN b
    ELSE [b EXCEPT !.mixActive = FALSE, !.mixRuns = 0]

(* ----------------------------- public API ------------------------------ *)

\* manage(win); of the windows, the first one ever managed is named w1
Manage(w) ==
    /\ Step
    /\ nManage < MaxManage
    /\ wins[w].phase # "closed"
    /\ w = "w1" \/ Len(listeners["w1"]) > 0
    /\ win' = w
    /\ listeners' = [listeners EXCEPT ![w] = Subscribe(listeners[w], nManage + 1)]
    /\ wins' = [wins EXCEPT ![w].methods = wins[w].methods \/ opts.addMethods]
    /\ nManage' = nManage + 1
    /\ last' = Op("manage", NoWin, FALSE)
    /\ UNCHANGED <<opts, store, state, closeSaves, burst>>

\* unmanage(), called by the application
UnmanageCall ==
    /\ Step
    /\ win # NoWin
    /\ LET u == Unmanage(Ctx) IN
        /\ win' = u.win
        /\ listeners' = u.listeners
    /\ last' = Op("unmanage", NoWin, FALSE)
    /\ UNCHANGED <<opts, store, state, wins, nManage, closeSaves, burst>>

\* getState(), called by the application: it returns GetState(opts, store)
GetStateCall ==
    /\ Step
    /\ last' = Op("getState", NoWin, FALSE)
    /\ UNCHANGED <<opts, store, state, win, wins, listeners, nManage, closeSaves, burst>>

\* saveState(), called by the application
SaveStateCall ==
    /\ Step
    /\ store' = SaveState(store, state)
    /\ last' = Op("saveState", NoWin, FALSE)
    /\ UNCHANGED <<opts, state, win, wins, listeners, nManage, closeSaves, burst>>

\* changeFrame(value), directly or through win.setFramed(value)
ChangeFrame(v) ==
    /\ Step
    /\ state' = ObjectAssign(state, [frame |-> v])
    /\ store' = SaveState(store, state')
    /\ UNCHANGED <<opts, win, wins, listeners, nManage, closeSaves, burst>>

ChangeFrameCall(v) ==
    /\ ChangeFrame(v)
    /\ last' = Op("changeFrame", NoWin, FALSE)

SetFramed(w, v) ==
    /\ wins[w].methods
    /\ wins[w].phase # "closed"
    /\ ChangeFrame(v)
    /\ last' = Op("changeFrame", NoWin, FALSE)

\* reset()
ResetCall ==
    /\ Step
    /\ store' = Reset(Instance).store
    /\ state' = Reset(Instance).state
    /\ last' = [Op("reset", NoWin, FALSE) EXCEPT !.wiped = TRUE]
    /\ UNCHANGED <<opts, win, wins, listeners, nManage, closeSaves, burst>>

\* win.resetWindowToDefault(): this.win?.setSize(defaults), on which the
\* bound window emits `resize`, then reset()
ResetWindowToDefault(w) ==
    /\ Step
    /\ wins[w].methods
    /\ wins[w].phase # "closed"
    /\ IF win = NoWin
       THEN UNCHANGED <<wins, listeners, burst>>
       ELSE /\ wins' = [wins EXCEPT ![win].bounds.width = opts.defaultWidth,
                                    ![win].bounds.height = opts.defaultHeight]
            /\ listeners' = [listeners EXCEPT ![win] = Arm(@, "resize", opts.debounce)]
            /\ burst' = [burst EXCEPT ![win] =
                             Arrive([@ EXCEPT !.active = ManagedOnce(win), !.runs = 0], win)]
    /\ store' = Reset(Instance).store
    /\ state' = Reset(Instance).state
    /\ last' = [Op("reset", NoWin, FALSE) EXCEPT !.wiped = TRUE]
    /\ UNCHANGED <<opts, win, nManage, closeSaves>>

(* --------------------------- window events ----------------------------- *)

\* the window is resized and emits `resize`
UserResize(w, sz) ==
    /\ Step
    /\ wins[w].phase # "closed"
    /\ wins' = [wins EXCEPT ![w].bounds.width = sz.width, ![w].bounds.height = sz.height]
    /\ listeners' = [listeners EXCEPT ![w] = Arm(@, "resize", opts.debounce)]
    /\ burst' = [burst EXCEPT ![w] =
                     Arrive([@ EXCEPT !.active = ManagedOnce(w), !.runs = 0], w)]
    /\ last' = Op("event", NoWin, FALSE)
    /\ UNCHANGED <<opts, store, state, win, nManage, closeSaves>>

\* the window is moved and emits `move`
UserMove(w, p) ==
    /\ Step
    /\ wins[w].phase # "closed"
    /\ wins' = [wins EXCEPT ![w].bounds.x = p.x, ![w].bounds.y = p.y]
    /\ listeners' = [listeners EXCEPT ![w] = Arm(@, "move", opts.debounce)]
    /\ burst' = [burst EXCEPT ![w] = Arrive(@, w)]
    /\ last' = Op("event", NoWin, FALSE)
    /\ UNCHANGED <<opts, store, state, win, nManage, closeSaves>>

\* the window emits `maximize`
UserMaximize(w) ==
    /\ Step
    /\ wins[w].phase # "closed"
    /\ listeners' = [listeners EXCEPT ![w] = Arm(@, "maximize", opts.debounce)]
    /\ burst' = [burst EXCEPT ![w] = Arrive(@, w)]
    /\ last' = Op("event", NoWin, FALSE)
    /\ UNCHANGED <<opts, store, state, win, wins, nManage, closeSaves>>

\* the window is minimized, made full-screen, or restored
SetMode(w, m) ==
    /\ Step
    /\ wins[w].phase # "closed"
    /\ wins[w].mode # m
    /\ wins' = [wins EXCEPT ![w].mode = m]
    /\ last' = Op("event", NoWin, FALSE)
    /\ UNCHANGED <<opts, store, state, win, listeners, nManage, closeSaves, burst>>

CountOf(ls, e) == Cardinality({ i \in 1..Len(ls) : ls[i].event = e })

AnyReleased(ls, e) == \E i \in 1..Len(ls) : ls[i].event = e /\ ls[i].released

\* the emitter runs the listeners of `close` or `closed`: closeHandler each
EmitClose(w, e) ==
    LET c == RunClose(Ctx, state, CountOf(listeners[w], e)) IN
    /\ Step
    /\ win' = c.win
    /\ store' = c.store
    /\ listeners' = c.listeners
    /\ closeSaves' = [closeSaves EXCEPT ![w] = @ + c.saves]
    /\ last' = Op(e, w, AnyReleased(listeners[w], e))
    /\ UNCHANGED <<opts, state, nManage, burst>>

\* the window emits `close`
Close(w) ==
    /\ wins[w].phase = "open"
    /\ wins' = [wins EXCEPT ![w].phase = "closing", ![w].boundAtClose = (win = w)]
    /\ EmitClose(w, "close")

\* the window emits `closed` and is destroyed
Closed(w) ==
    /\ wins[w].phase = "closing"
    /\ wins' = [wins EXCEPT ![w].phase = "closed"]
    /\ EmitClose(w, "closed")

(* ------------------------------- timers -------------------------------- *)

Timers == { <<w, i>> \in Windows \X (1..(5 * MaxManage)) :
              i <= Len(listeners[w]) /\ listeners[w][i].timer # NoTimer }

\* d milliseconds pass, no pending timer being due earlier
Tick(d) ==
    /\ Timers # {}
    /\ \A t \in Timers : listeners[t[1]][t[2]].timer >= d
    /\ listeners' = [w \in Windows |->
                       [i \in 1..Len(listeners[w]) |->
                          IF listeners[w][i].timer # NoTimer
                          THEN [listeners[w][i] EXCEPT !.timer = @ - d]
                          ELSE listeners[w][i]]]
    /\ last' = Op("tick", NoWin, FALSE)
    /\ UNCHANGED <<ops, opts, store, state, win, wins, nManage, closeSaves, burst>>

\* a debounce timer expires and calls changeHandler()
TimerFire(w, i, f) ==
    /\ i <= Len(listeners[w])
    /\ listeners[w][i].timer = 0
    /\ f = NoFailure \/ Throws(f, win, wins)
    /\ listeners' = [listeners EXCEPT ![w][i].timer = NoTimer, ![w][i].stale = FALSE]
    /\ state' = ChangeHandler(state, store, win, wins, opts, f).state
    /\ store' = ChangeHandler(state, store, win, wins, opts, f).store
    /\ burst' = [burst EXCEPT
                   ![w].runs = IF listeners[w][i].event = "resize" /\ burst[w].active
                               THEN @ + 1 ELSE @,
                   ![w].mixRuns = IF burst[w].mixActive /\ CleanBinding(w)
                                  THEN @ + 1 ELSE @]
    /\ last' = ObjectAssign(Op("changeHandler", w, listeners[w][i].stale),
                            [failed |-> ChangeHandler(state, store, win, wins, opts, f).failed,
                             thrown |-> ChangeHandler(state, store, win, wins, opts, f).thrown])
    /\ UNCHANGED <<ops, opts, win, wins, nManage, closeSaves>>

Next ==
    \/ \E w \in Windows : Manage(w)
    \/ UnmanageCall
    \/ GetStateCall
    \/ SaveStateCall
    \/ \E v \in BOOLEAN : ChangeFrameCall(v)
    \/ \E w \in Windows, v \in BOOLEAN : SetFramed(w, v)
    \/ ResetCall
    \/ \E w \in Windows : ResetWindowToDefault(w)
    \/ \E w \in Windows, sz \in Sizes : UserResize(w, sz)
    \/ \E w \in Windows, p \in Positions : UserMove(w, p)
    \/ \E w \in Windows : UserMaximize(w)
    \/ \E w \in Windows, m \in Modes : SetMode(w, m)
    \/ \E w \in Windows : Close(w)
    \/ \E w \in Windows : Closed(w)
    \/ \E d \in TimeSteps : Tick(d)
    \/ \E w \in Windows, i \in 1..(5 * MaxManage), f \in Queries \cup {NoFailure} :
          TimerFire(w, i, f)

Spec == Init /\ [][Next]_vars

(* ------------------- construction, by either entry point --------------- *)

\* the bounds of a window built with options c: the size and position that
\* c leaves undefined are chosen by the window system
BoundsOf(c) ==
    [k \in {"x", "y", "width", "height"} |->
        IF IsUndefined(Get(c, k)) THEN NewWindow.bounds[k] ELSE c[k]]

\* the program once createBrowserWindow(options) has returned window w1
FactoryRun(options, stored) ==
    LET b == FactoryBuilt(options, stored) IN
    [opts |-> b.opts, state |-> b.state, win |-> "w1",
     wins |-> [w \in Windows |->
                 IF w = "w1"
                 THEN [NewWindow EXCEPT !.bounds = BoundsOf(b.ctor),
                                        !.methods = b.opts.addMethods]
                 ELSE NewWindow],
     listeners |-> [w \in Windows |-> IF w = "w1" THEN Subscribe(<< >>, 1) ELSE << >>],
     nManage |-> 1,
     last |-> ObjectAssign(Built("createBrowserWindow"),
                           [input |-> options, ctor |-> b.ctor])]

\* the program once new WinState(options) has returned
ConstructorRun(options, stored) ==
    [opts |-> ResolveOptions(options),
     state |-> GetState(ResolveOptions(options), stored),
     win |-> NoWin,
     wins |-> [w \in Windows |-> NewWindow],
     listeners |-> [w \in Windows |-> << >>],
     nManage |-> 0,
     last |-> ObjectAssign(Built("constructor"), [input |-> options])]

\* the application has just started as r, over the store `stored`
Started(r, stored) ==
    /\ store = stored
    /\ opts = r.opts /\ state = r.state /\ win = r.win /\ wins = r.wins
    /\ listeners = r.listeners /\ nManage = r.nManage /\ last = r.last
    /\ ops = 0
    /\ closeSaves = [w \in Windows |-> 0]
    /\ burst = [w \in Windows |-> NoBurst]

\* the application starts over a store left by a previous run
InitFactory ==
    \E stored \in StoredInputs :
        \/ \E options \in FactoryInputs : Started(FactoryRun(options, stored), stored)
        \/ \E options \in ConstructorInputs : Started(ConstructorRun(options, stored), stored)

\* the application is started again over the store as it is now
Restart(r) ==
    /\ opts' = r.opts /\ state' = r.state /\ win' = r.win /\ wins' = r.wins
    /\ listeners' = r.listeners /\ nManage' = r.nManage /\ last' = r.last
    /\ ops' = 0
    /\ closeSaves' = [w \in Windows |-> 0]
    /\ burst' = [w \in Windows |-> NoBurst]
    /\ UNCHANGED store

\* WinState.createBrowserWindow(options)
CreateBrowserWindow(options) == Restart(FactoryRun(options, store))

\* new WinState(options)
Construct(options) == Restart(ConstructorRun(options, store))

NextFactory ==
    \/ \E options \in FactoryInputs : CreateBrowserWindow(options)
    \/ \E options \in ConstructorInputs : Construct(options)
    \/ ResetCall

SpecFactory == InitFactory /\ [][NextFactory]_vars

(* ------------------------------ claims --------------------------------- *)

Geometry(s) == [k \in {"x", "y", "width", "height"} \cap (DOMAIN s) |-> s[k]]

HandlerRan == last.op \in {"changeHandler", "close", "closed"}

\* C11: the in-memory state always holds a width and a height, also when
\* createBrowserWindow is called with options that name neither
C11_SizePresent ==
    \A k \in {"width", "height"} : k \in DOMAIN state /\ ~IsUndefined(state[k])

\* C1: a managed window that emitted `close` and then `closed` had the store
\* written by the close path exactly once, with the in-memory state.
C1_CloseSavesOnce ==
    \A w \in Windows :
        (wins[w].phase = "closed" /\ wins[w].boundAtClose) =>
            /\ closeSaves[w] = 1
            /\ \A k \in DOMAIN state : k \in DOMAIN store /\ store[k] = state[k]

\* C2: once unmanage() has returned, no event of the window invokes
\* changeHandler or closeHandler through a listener manage() had subscribed.
C2_NoHandlerAfterUnmanage == ~(HandlerRan /\ last.released)

\* C3: a burst of resize notifications on the managed window (bound by one
\* manage() call since the last unmanage()) runs changeHandler exactly once,
\* after the delay has passed since the last notification.
C3_BurstRunsOnce ==
    \A w \in Windows :
        burst[w].active =>
            /\ burst[w].runs <= 1
            /\ (\A i \in 1..Len(listeners[w]) :
                    listeners[w][i].event = "resize" => listeners[w][i].timer = NoTimer)
               => burst[w].runs = 1

\* C4: changeHandler changes x, y, width or height of the in-memory state
\* only when the bound window is neither minimized nor full-screen.
C4_GeometryKeptUnlessNormal ==
    [][ (last'.op = "changeHandler" /\ Geometry(state') # Geometry(state))
            => (win # NoWin /\ wins[win].mode = "normal") ]_vars

C4_Witness ==
    /\ last.op = "changeHandler"
    /\ ~last.failed
    /\ win # NoWin
    /\ wins[win].mode \in {"minimized", "fullscreen"}
    /\ state.width # wins[win].bounds.width

Max0(v) == CHOOSE m \in {0, v} : \A n \in {0, v} : m >= n

NonNegative(s) == \A k \in {"x", "y"} \cap (DOMAIN s) : s[k] >= 0

\* C5: in normal mode changeHandler, its window queries answered, records
\* x = max(0, bx), y = max(0, by), width = bw, height = bh; no recorded or
\* persisted x or y is negative.
C5_ClampedGeometry ==
    [][ /\ (last'.op = "changeHandler" /\ ~last'.failed
              /\ win # NoWin /\ wins[win].mode = "normal")
            => Geometry(state') = [x      |-> Max0(wins[win].bounds.x),
                                   y      |-> Max0(wins[win].bounds.y),
                                   width  |-> wins[win].bounds.width,
                                   height |-> wins[win].bounds.height]
        /\ NonNegative(state')
        /\ NonNegative(store') ]_vars

C5_Witness ==
    /\ last.op = "changeHandler"
    /\ ~last.failed
    /\ win # NoWin
    /\ wins[win].mode = "normal"
    /\ wins[win].bounds.x = -50
    /\ state.x = 0
    /\ state.y = 30

\* the keys and values of the defaults record as the specification gives them
C6_DefaultKeys == IF opts.storeFrameOption THEN {"width", "height", "frame"} ELSE {"width", "height"}

C6_DefaultAt(k) ==
    IF k = "width" THEN opts.defaultWidth
    ELSE IF k = "height" THEN opts.defaultHeight
    ELSE opts.defaultFrame

C6_Overlay(r, stored) ==
    /\ DOMAIN r = C6_DefaultKeys \cup DOMAIN stored
    /\ \A k \in DOMAIN stored : r[k] = stored[k]
    /\ \A k \in C6_DefaultKeys \ DOMAIN stored : r[k] = C6_DefaultAt(k)

\* C6: getState() is the defaults record overlaid by the stored record, the
\* stored keys winning, and it leaves the store as it is.
C6_GetStateOverlay ==
    [][ /\ C6_Overlay(GetState(opts, store'), store')
        /\ last'.op = "getState" => store' = store ]_vars

C6_Witness ==
    /\ last.op = "getState"
    /\ "width" \in DOMAIN store
    /\ store.width # opts.defaultWidth
    /\ "frame" \notin DOMAIN store
    /\ opts.storeFrameOption

\* C7: after changeFrame(false) a fresh instance reads frame = false when
\* storeFrameOption is true and no frame key when it is false.
C7_FrameAfterChangeFrame ==
    (last.op = "changeFrame" /\ state.frame = FALSE) =>
        LET r == GetState(opts, store) IN
        IF opts.storeFrameOption
        THEN "frame" \in DOMAIN r /\ r.frame = FALSE
        ELSE "frame" \notin DOMAIN r

\* C8: right after reset() a fresh instance reads exactly the defaults.
C8_ResetGivesDefaults ==
    [][ last'.op = "reset" =>
            GetState(opts, store') = [k \in C6_DefaultKeys |-> C6_DefaultAt(k)] ]_vars

C8_Witness ==
    /\ last.op = "reset"
    /\ "x" \in DOMAIN state
    /\ state.width = 1024
    /\ store = EmptyObj

\* C9: without the dev option changeHandler leaves the store alone and only
\* changeFrame, saveState, reset and the close path write it; with the dev
\* option a changeHandler run on a bound window, its window queries answered,
\* writes the state to the store.
C9_StoreWrites ==
    [][ /\ (last'.op = "changeHandler" /\ ~opts.dev) => store' = store
        /\ (last'.op = "changeHandler" /\ opts.dev /\ win = NoWin) => store' = store
        /\ (last'.op = "changeHandler" /\ opts.dev /\ win # NoWin /\ ~last'.failed) =>
               /\ DOMAIN store' = DOMAIN store \cup DOMAIN state'
               /\ \A k \in DOMAIN state' : store'[k] = state'[k]
               /\ \A k \in DOMAIN store \ DOMAIN state' : store'[k] = store[k]
        /\ (~opts.dev /\ store' # store) =>
               last'.op \in {"changeFrame", "saveState", "reset", "close", "closed"} ]_vars

C9_Witness ==
    /\ last.op = "changeHandler"
    /\ ~last.failed
    /\ ~opts.dev
    /\ win # NoWin
    /\ wins[win].mode = "normal"
    /\ "x" \in DOMAIN state
    /\ "x" \notin DOMAIN store

\* C10: the events of at most one window can reach the handlers of the instance.
C10_OneBinding ==
    Cardinality({ w \in Windows : wins[w].phase # "closed" /\ Len(listeners[w]) > 0 }) <= 1

\* the storeFrameOption that a configuration c asks for
FrameRule(c) ==
    IF "storeFrameOption" \in DOMAIN c THEN c.storeFrameOption
    ELSE "defaultFrame" \in DOMAIN c

SubConfigOf(options) ==
    IF "winState" \in DOMAIN options THEN options.winState ELSE EmptyObj

\* C12: the resolved storeFrameOption is the caller's when one is given and
\* otherwise tells whether the caller gave a defaultFrame, for the
\* constructor's options and for the factory's winState sub-configuration
C12_StoreFrameResolved ==
    /\ last.op = "constructor" => opts.storeFrameOption = FrameRule(last.input)
    /\ last.op = "createBrowserWindow"
          => opts.storeFrameOption = FrameRule(SubConfigOf(last.input))

C12_Witness ==
    /\ last.op = "createBrowserWindow"
    /\ "defaultFrame" \in DOMAIN SubConfigOf(last.input)
    /\ "storeFrameOption" \notin DOMAIN SubConfigOf(last.input)
    /\ opts.storeFrameOption

\* C13: the options createBrowserWindow builds the window with never hold
\* the winState key, and hold the winOptions value of width, height, x and
\* y wherever the caller named that key too
C13_WindowOptions ==
    last.op = "createBrowserWindow" =>
        /\ "winState" \notin DOMAIN last.ctor
        /\ \A k \in {"width", "height", "x", "y"} \cap DOMAIN last.input :
              /\ k \in DOMAIN last.ctor
              /\ ToString(last.ctor[k]) = ToString(WinOptions(opts, state)[k])

C13_Witness ==
    /\ last.op = "createBrowserWindow"
    /\ "winState" \in DOMAIN last.input
    /\ "width" \in DOMAIN last.input /\ "x" \in DOMAIN last.input
    /\ "width" \in DOMAIN store /\ "x" \in DOMAIN store
    /\ last.input.width # store.width /\ last.input.x # store.x
    /\ last.ctor.width = store.width /\ last.ctor.x = store.x

\* C14: reset() empties the store and leaves the in-memory state as it
\* was, so winOptions and every getter read the same values after it as before
C14_ResetKeepsState ==
    [][last'.op = "reset" =>
          /\ store' = EmptyObj
          /\ DOMAIN state' = DOMAIN state
          /\ \A k \in DOMAIN state : ToString(state'[k]) = ToString(state[k])
          /\ \A k \in DOMAIN WinOptions(opts, state) :
                ToString(WinOptions(opts', state')[k]) = ToString(WinOptions(opts, state)[k])]_vars

C14_Witness ==
    /\ last.op = "reset"
    /\ store = EmptyObj
    /\ "x" \in DOMAIN state
    /\ state # GetState(opts, store)

\* C15: changeHandler never lets an error out, and a run in which a query
\* of the window fails leaves the in-memory state and the store as they were
C15_FailureSwallowed ==
    [][last'.op = "changeHandler" =>
          /\ ~last'.thrown
          /\ last'.failed => state' = state /\ store' = store]_vars

C15_Witness ==
    /\ last.op = "changeHandler"
    /\ last.failed
    /\ win # NoWin
    /\ wins[win].mode = "normal"
    /\ \E k \in {"width", "height"} : state[k] # wins[win].bounds[k]

\* C16: the resize, move and maximize notifications that reach a managed
\* window within one debounce delay lead to a single run of changeHandler
C16_MixedBurstRunsOnce ==
    \A w \in Windows : burst[w].mixActive => burst[w].mixRuns <= 1

\* C17: a debounced call that was pending when the window was closed or
\* unmanaged, and fires while no window is bound, changes neither the
\* in-memory state nor the store
C17_LateFireChangesNothing ==
    [][last'.op = "changeHandler" /\ win = NoWin => state' = state /\ store' = store]_vars

C17_Witness ==
    /\ last.op = "changeHandler"
    /\ win = NoWin
    /\ ~last.released
    /\ wins[last.w].phase = "closing"
    /\ closeSaves[last.w] > 0
    /\ wins[last.w].mode = "normal"
    /\ wins[last.w].bounds.width # state.width
    /\ \A k \in DOMAIN state : k \in DOMAIN store /\ store[k] = state[k]

\* a step in which saveState() runs: saveState, changeFrame, closeHandler,
\* or changeHandler with the dev option on a bound window
SaveStep ==
    \/ last'.op \in {"saveState", "changeFrame"}
    \/ last'.op \in {"close", "closed"} /\ closeSaves' # closeSaves
    \/ last'.op = "changeHandler" /\ opts.dev /\ win # NoWin /\ ~last'.failed

\* C18: once reset() has run on an instance, every later save on it leaves
\* the store holding every key of the in-memory state with the state's value
C18_SaveUndoesReset ==
    [][last.wiped /\ SaveStep =>
          \A k \in DOMAIN state' : k \in DOMAIN store' /\ store'[k] = state'[k]]_vars

C18_Witness ==
    /\ last.wiped
    /\ last.op = "close"
    /\ closeSaves[last.w] > 0
    /\ {"x", "y", "frame"} \subseteq DOMAIN state
    /\ \A k \in DOMAIN state : k \in DOMAIN store /\ store[k] = state[k]

====
